---- MODULE Spec2Model ----
(***************************************************************************)
(* Model of bs-classlist.py: D2LClasslistScraper.                          *)
(*   wait_and_click, login, navigate_to_classlist, parse_classlist and     *)
(*   get_classlist, with the browser and the human at the terminal as the  *)
(*   nondeterministic environment.                                         *)
(* Strings are sequences of one-character strings, so that strip() and     *)
(* split(',', 1) are computed and not assumed.                             *)
(***************************************************************************)
EXTENDS Integers, Sequences, FiniteSets, TLC

VARIABLES
    pc,            \* position of the control flow
    driver,        \* self.driver: 0 is None, otherwise the browser handle it refers to
    opened,        \* number of browser handles webdriver.Chrome() has returned so far
    quits,         \* quits[h]: number of driver.quit() invocations on handle h
    calls,         \* number of get_classlist calls started on this scraper
    exc,           \* get_classlist: the exception on its way to the caller, or "none"
    ret,           \* get_classlist: the value returned
    prompted,      \* get_classlist: the credential prompts were executed
    trace,         \* get_classlist: the steps this call has started, in order
    launch,        \* get_classlist: how the launch of this call went, or "none"
    returned,      \* get_classlist: the steps of this call that returned, in order
    login,         \* the running or just finished login call
    nav,           \* the running or just finished navigate_to_classlist call
    url,           \* __init__: the argument course_url
    urlParts,      \* the pieces the argument was written from
    course_url,    \* self.course_url
    classlist_url, \* self.classlist_url
    ctorExc,       \* the exception __init__ raised, or "none"
    wcRetries,     \* wait_and_click: the argument `retries`
    wcEnv,         \* wait_and_click: what the browser does on each attempt
    wcResult,      \* wait_and_click: how the call ended
    students,      \* parse_classlist: the list `students`
    attempt,       \* parse_classlist: the loop variable `attempt`
    soup,          \* parse_classlist: the page captured by the attempt that ended the call
    captures,      \* number of reads of driver.page_source in this call
    yields,        \* len(students) at the end of each attempt of this call, in order
    parseResult,   \* "none" while running, then "return" or "raise"
    parseExc,      \* the exception parse_classlist raised, or "none"
    rendered,      \* the page the browser keeps showing, or Changing
    runs,          \* number of parse_classlist calls that have ended
    firstRun       \* how the first of them ended

pageVars == <<rendered, runs, firstRun>>

parseVars == <<students, attempt, soup, captures, yields, parseResult, parseExc, pageVars>>

sessVars == <<driver, opened, quits, calls, exc, ret, prompted, trace, launch, returned>>

clickVars == <<wcRetries, wcEnv, wcResult>>

urlVars == <<url, urlParts, course_url, classlist_url, ctorExc>>

vars == <<pc, sessVars, login, nav, clickVars, urlVars, parseVars>>

----------------------------------------------------------------------------
(* Bounds *)

MaxRows == 3        \* data rows of a rendered table
MaxRetries == 4     \* largest `retries` passed to wait_and_click
MaxCalls == 2       \* get_classlist calls on one scraper
MaxOptions == 2     \* MFA options on the challenge page
MaxRuns == 2        \* parse_classlist calls against one page
MaxSegs == 3        \* segments of the path of a course URL
MaxTrail == 2       \* slashes that end the path of a course URL

----------------------------------------------------------------------------
(* Text *)

IsSpace(c) == c = " "

RECURSIVE LStrip(_)
LStrip(s) == IF s # <<>> /\ IsSpace(Head(s)) THEN LStrip(Tail(s)) ELSE s

RECURSIVE RStrip(_)
RStrip(s) ==
    IF s # <<>> /\ IsSpace(s[Len(s)]) THEN RStrip(SubSeq(s, 1, Len(s) - 1)) ELSE s

\* str.strip
Strip(s) == RStrip(LStrip(s))

\* cell.get_text(strip=True) of a cell holding one text node
GetText(cell) == Strip(cell)

\* ',' in s
HasComma(s) == \E i \in 1..Len(s) : s[i] = ","

\* s.index(',')
FirstComma(s) == CHOOSE i \in 1..Len(s) : s[i] = "," /\ \A j \in 1..(i - 1) : s[j] # ","

\* map(str.strip, s.split(',', 1)) for s containing a comma
SplitName(s) ==
    LET i == FirstComma(s)
    IN  <<Strip(SubSeq(s, 1, i - 1)), Strip(SubSeq(s, i + 1, Len(s)))>>

----------------------------------------------------------------------------
(* StudentRecord and the row scan of parse_classlist *)

StudentRecord(ln, fn, un, oid, em, ro, la) ==
    [last_name |-> ln, first_name |-> fn, username |-> un, org_id |-> oid,
     email |-> em, role |-> ro, last_accessed |-> la]

FieldNames ==
    {"last_name", "first_name", "username", "org_id", "email", "role", "last_accessed"}

\* all(vars(student).values())
AllFields(student) == \A f \in FieldNames : student[f] # <<>>

MinCells == 8

\* the record built from a row of at least 8 cells whose name cell has a comma
MakeStudent(cells) ==
    LET names == SplitName(GetText(cells[3]))
    IN  StudentRecord(names[1], names[2], GetText(cells[4]), GetText(cells[5]),
                      GetText(cells[6]), GetText(cells[7]), GetText(cells[8]))

\* the body of `for row in rows`: the list after this row
ScanRow(cells, acc) ==
    IF Len(cells) >= MinCells
    THEN LET name_cell == GetText(cells[3])
         IN  IF name_cell = <<>> \/ ~HasComma(name_cell)
             THEN acc
             ELSE IF AllFields(MakeStudent(cells))
                  THEN Append(acc, MakeStudent(cells))
                  ELSE acc
    ELSE acc

RECURSIVE ScanRows(_, _)
ScanRows(rows, acc) ==
    IF rows = <<>> THEN acc ELSE ScanRows(Tail(rows), ScanRow(Head(rows), acc))

\* table.find_all('tr'): the header row taken for a data row
DataRowsWithHeader(table) == table

\* table.find_all('tr')[1:]
DataRows(table) == IF table = <<>> THEN <<>> ELSE Tail(table)

----------------------------------------------------------------------------
(* Rendered pages the browser can hand back *)

X == <<"x">>
Blank == <<>>
Spaces == <<" ">>

Row8(name, user, email, role) == <<X, X, name, user, X, email, role, X>>

HeaderRow ==
    <<<<"#">>, <<"i">>, <<"L", ",", "F">>, <<"U">>, <<"O">>, <<"E">>, <<"R">>, <<"A">>>>

RowKinds ==
    { Row8(<<"a", ",", "b">>, <<"1">>, X, X),                  \* valid
      Row8(<<" ", "c", " ", ",", " ", "d", ",", "e", " ">>, <<"2">>, X, X) \o <<X>>,
                                                               \* valid: 9 cells, padded, two commas
      <<X, X, <<"a", ",", "b">>, <<"3">>, X, X, X>>,           \* 7 cells
      Row8(<<"a">>, <<"4">>, X, X),                            \* no comma
      Row8(Spaces, <<"5">>, X, X),                             \* name of spaces only
      Row8(<<"a", ",">>, <<"6">>, X, X),                       \* empty first name
      Row8(<<"a", ",", "b">>, <<"7">>, Blank, X),              \* blank email
      Row8(<<"a", ",", "b">>, <<"8">>, X, Spaces) }            \* role of spaces only

RowSeqs == UNION { [1..n -> RowKinds] : n \in 0..MaxRows }

\* a table is the sequence of its tr elements, header first; <<>> has no tr at all
Tables == {<<>>} \cup { <<HeaderRow>> \o rows : rows \in RowSeqs }

\* a captured page: what soup.find('table', ...) gives for it
PageOf(t) == [kind |-> "table", table |-> t]
NoTable == [kind |-> "no_table", table |-> <<>>]             \* find() is None
CaptureFailed == [kind |-> "capture_failed", table |-> <<>>] \* driver.page_source raised
Unbound == [kind |-> "unbound", table |-> <<>>]

Pages == { PageOf(t) : t \in Tables } \cup {NoTable, CaptureFailed}

\* the page changes between captures
Changing == [kind |-> "changing", table |-> <<>>]

\* what a read of driver.page_source can give
Served(shown) == IF shown = Changing THEN Pages ELSE {shown, CaptureFailed}

NoRun == [result |-> "none", students |-> <<>>]

----------------------------------------------------------------------------
(* parse_classlist *)

retries == 3

\* what one attempt does with the captured page, given the list so far:
\* the list afterwards and whether the try block raised
AttemptBody(page, acc) ==
    IF page = CaptureFailed THEN [students |-> acc, raised |-> TRUE]
    ELSE IF page = NoTable THEN [students |-> acc, raised |-> TRUE]
    ELSE IF DataRows(page.table) = <<>> THEN [students |-> acc, raised |-> TRUE]
    ELSE [students |-> ScanRows(DataRows(page.table), acc), raised |-> FALSE]

\* the loop without its break
BreaksLoopNever(found) == FALSE

\* `if students: break`
BreaksLoop(found) == found # <<>>

\* the loop that never raises
LastAttemptNever(a) == FALSE

\* `if attempt == retries - 1: raise ValueError(...)`
LastAttempt(a) == a = retries - 1

\* the call that leaves the list of the call before in place
ParseCallKeepsList ==
    /\ pc = <<"parse", "call">>
    /\ pc' = <<"parse", "loop">>
    /\ attempt' = 0
    /\ soup' = Unbound
    /\ captures' = 0
    /\ yields' = <<>>
    /\ parseResult' = "none"
    /\ parseExc' = "none"
    /\ UNCHANGED <<students, sessVars, login, nav, clickVars, urlVars, pageVars>>

\* students = []; retries = 3
ParseCall ==
    /\ pc = <<"parse", "call">>
    /\ pc' = <<"parse", "loop">>
    /\ students' = <<>>
    /\ attempt' = 0
    /\ soup' = Unbound
    /\ captures' = 0
    /\ yields' = <<>>
    /\ parseResult' = "none"
    /\ parseExc' = "none"
    /\ UNCHANGED <<sessVars, login, nav, clickVars, urlVars, pageVars>>

\* one iteration of `for attempt in range(retries)`, and the return after the loop
ParseAttempt ==
    /\ pc = <<"parse", "loop">>
    /\ parseResult = "none"
    /\ attempt < retries
    /\ \E page \in Served(rendered) :
       \E body \in {AttemptBody(page, students)} :
       \E ends \in {\/ (body.raised /\ LastAttempt(attempt))
                    \/ (~body.raised /\ BreaksLoop(body.students))
                    \/ (~body.raised /\ attempt + 1 = retries)} :
         /\ captures' = captures + 1
         /\ yields' = Append(yields, Len(body.students))
         /\ students' = body.students
         /\ attempt' = IF ends THEN attempt ELSE attempt + 1
         \* the page of an attempt that is followed by another one is never read again
         /\ soup' = IF ends THEN page ELSE Unbound
         /\ parseResult' = IF ~ends THEN "none"
                           ELSE IF body.raised THEN "raise" ELSE "return"
         /\ parseExc' = IF ends /\ body.raised THEN "ValueError" ELSE "none"
    /\ UNCHANGED <<pc, sessVars, login, nav, clickVars, urlVars, pageVars>>

\* the caller runs parse_classlist once more on the same scraper
ParseAgain ==
    /\ pc = <<"parse", "loop">>
    /\ parseResult # "none"
    /\ runs + 1 < MaxRuns
    /\ runs' = runs + 1
    /\ firstRun' = IF runs = 0 THEN [result |-> parseResult, students |-> students]
                   ELSE firstRun
    /\ pc' = <<"parse", "call">>
    /\ UNCHANGED <<students, attempt, soup, captures, yields, parseResult, parseExc,
                   rendered, sessVars, login, nav, clickVars, urlVars>>

----------------------------------------------------------------------------
(* wait_and_click *)

\* what one attempt meets: the click works, the click raises
\* StaleElementReferenceException or ElementClickInterceptedException, the
\* scroll script raises StaleElementReferenceException before any click, or
\* the element does not become clickable within the timeout
ClickOutcomes == {"ok", "stale", "intercepted", "stale_scroll", "timeout"}

ClickEnvs(r) == [1..r -> ClickOutcomes]

ClickExc(o) ==
    IF o = "intercepted" THEN "ElementClickInterceptedException"
    ELSE IF o = "timeout" THEN "TimeoutException"
    ELSE "StaleElementReferenceException"

\* a handler that catches whatever the attempt raised
ClickCatchesAll(o) == TRUE

\* `except (ElementClickInterceptedException, StaleElementReferenceException)`
ClickCatches(o) == o \in {"stale", "intercepted", "stale_scroll"}

\* `if attempt == retries: raise`, which no attempt satisfies
ClickGivesUpLate(a, r) == a = r

\* `if attempt == retries - 1: raise`
ClickGivesUp(a, r) == a = r - 1

\* the loop `for attempt in range(retries)` from attempt a on; waits and clicks
\* count the clickable-waits and the element.click() invocations so far
RECURSIVE ClickLoop(_, _, _, _, _)
ClickLoop(r, env, a, waits, clicks) ==
    IF a >= r
    THEN [result |-> "return", exc |-> "none", waits |-> waits, clicks |-> clicks,
          clicked |-> 0]
    ELSE IF env[a + 1] = "ok"
    THEN [result |-> "return", exc |-> "none", waits |-> waits + 1,
          clicks |-> clicks + 1, clicked |-> 1]
    ELSE IF ~ClickCatches(env[a + 1])
    THEN [result |-> "raise", exc |-> ClickExc(env[a + 1]), waits |-> waits + 1,
          clicks |-> clicks, clicked |-> 0]
    ELSE LET made == IF env[a + 1] = "stale_scroll" THEN clicks ELSE clicks + 1
         IN  IF ClickGivesUp(a, r)
             THEN [result |-> "raise", exc |-> ClickExc(env[a + 1]), waits |-> waits + 1,
                   clicks |-> made, clicked |-> 0]
             ELSE ClickLoop(r, env, a + 1, waits + 1, made)

wait_and_click(r, env) == ClickLoop(r, env, 0, 0, 0)

DefaultRetries == 3

\* how a call wait_and_click(by, value) can end, over all the page can do
ClickResults == { wait_and_click(DefaultRetries, env) : env \in ClickEnvs(DefaultRetries) }

NoClickResult == [result |-> "none", exc |-> "none", waits |-> 0, clicks |-> 0, clicked |-> 0]

WaitAndClickCall ==
    /\ pc = <<"click", "call">>
    /\ pc' = <<"click", "done">>
    /\ wcResult' = wait_and_click(wcRetries, wcEnv)
    /\ UNCHANGED <<wcRetries, wcEnv, sessVars, login, nav, parseVars, urlVars>>

----------------------------------------------------------------------------
(* login *)

LoginOrder ==
    <<"NavigateToCourse", "EmailEntry", "PasswordEntry", "MfaChallenge",
      "StaySignedInPrompt", "LoadVerification">>

\* login without its MFA block
NextStageSkipsMfa(stage) ==
    CASE stage = "NavigateToCourse" -> "EmailEntry"
      [] stage = "EmailEntry" -> "PasswordEntry"
      [] stage = "PasswordEntry" -> "StaySignedInPrompt"
      [] stage = "StaySignedInPrompt" -> "LoadVerification"
      [] OTHER -> "done"

\* the block of login that follows the block of `stage`
NextStage(stage) ==
    CASE stage = "NavigateToCourse" -> "EmailEntry"
      [] stage = "EmailEntry" -> "PasswordEntry"
      [] stage = "PasswordEntry" -> "MfaChallenge"
      [] stage = "MfaChallenge" -> "StaySignedInPrompt"
      [] stage = "StaySignedInPrompt" -> "LoadVerification"
      [] OTHER -> "done"

\* success_elements
NumSelectors == 4

LoginIdle ==
    [stages |-> <<>>, completed |-> {}, result |-> "none", exc |-> "none",
     cause |-> "none", gate |-> "none", stay |-> "none", stayClicks |-> 0,
     attempts |-> 0,
     probes |-> 0, verified |-> FALSE,
     mfaListed |-> FALSE, options |-> 0, choiceRead |-> FALSE, choice |-> 0,
     mfaClicked |-> FALSE, confirmAsked |-> FALSE, codeAsked |-> FALSE,
     codeTyped |-> FALSE,
     appears |-> [i \in 1..NumSelectors |-> FALSE]]

\* `except TimeoutException as e: raise AuthenticationError(...)` in its place
LoginWrapTimeoutOnly(kind) ==
    IF kind = "TimeoutException" THEN "AuthenticationError" ELSE kind

\* `except Exception as e: raise AuthenticationError(...)` around the whole of login
LoginWrap(kind) == "AuthenticationError"

\* the handlers of the MFA block: `except TimeoutException` and `except ValueError`
\* raise AuthenticationError, anything else passes
MfaWrap(kind) ==
    IF kind \in {"TimeoutException", "ValueError"} THEN "AuthenticationError" ELSE kind

\* a stage of login ends: it raised `cause` ("none": it completed), `l` is the
\* login record with what the stage did
StageEnds(stage, l, cause) ==
    IF cause = "none"
    THEN /\ login' = [l EXCEPT !.stages = Append(@, stage), !.completed = @ \cup {stage}]
         /\ pc' = <<"login", NextStage(stage)>>
    ELSE /\ login' = [l EXCEPT !.stages = Append(@, stage), !.result = "raise",
                               !.cause = cause, !.exc = LoginWrap(cause)]
         /\ pc' = <<"login", "done">>

StageFrame == UNCHANGED <<sessVars, nav, clickVars, urlVars, parseVars>>

\* errors a browser command on a located element can raise
ElementErrors == {"StaleElementReferenceException", "WebDriverException"}

\* self.driver.get(self.course_url)
LoginNavigate ==
    /\ pc = <<"login", "NavigateToCourse">>
    /\ \E get \in {"none", "WebDriverException"} :
         StageEnds("NavigateToCourse", login, get)
    /\ StageFrame

\* the email block
LoginEmail ==
    /\ pc = <<"login", "EmailEntry">>
    /\ \E gate \in {"clickable", "timeout"}, typing \in {"none"} \cup ElementErrors,
          click \in ClickResults :
         IF gate = "timeout"
         THEN StageEnds("EmailEntry", [login EXCEPT !.gate = "EmailEntry"], "TimeoutException")
         ELSE IF typing # "none" THEN StageEnds("EmailEntry", login, typing)
         ELSE StageEnds("EmailEntry", [login EXCEPT !.attempts = click.waits], click.exc)
    /\ StageFrame

\* the password block
LoginPassword ==
    /\ pc = <<"login", "PasswordEntry">>
    /\ \E gate \in {"present", "timeout"}, typing \in {"none"} \cup ElementErrors,
          click \in ClickResults :
         IF gate = "timeout"
         THEN StageEnds("PasswordEntry", [login EXCEPT !.gate = "PasswordEntry"],
                        "TimeoutException")
         ELSE IF typing # "none" THEN StageEnds("PasswordEntry", login, typing)
         ELSE StageEnds("PasswordEntry", [login EXCEPT !.attempts = click.waits], click.exc)
    /\ StageFrame

\* the check of the choice against the number of options only
ChoiceAboveOnly(choice, n) == choice >= n

\* `choice < 0 or choice >= len(mfa_options)`
ChoiceInvalid(choice, n) == choice < 0 \/ choice >= n

\* the try block of the MFA stage: the exception it raises ("none": it ran to
\* its end) and what it did before
MfaBody(container, n, numeric, typed, click, otc, found, submit, verify) ==
    LET r0 == [cause |-> "none", gate |-> FALSE, mfaListed |-> FALSE, options |-> 0,
               choiceRead |-> FALSE, choice |-> 0, mfaClicked |-> FALSE,
               confirmAsked |-> FALSE, codeAsked |-> FALSE, codeTyped |-> FALSE]
        r1 == [r0 EXCEPT !.mfaListed = TRUE, !.options = n]
        r  == [r1 EXCEPT !.choiceRead = TRUE, !.choice = typed - 1]
    IN  IF container = "timeout"
        THEN [r0 EXCEPT !.cause = "TimeoutException", !.gate = TRUE]
        ELSE IF n = 0 THEN [r1 EXCEPT !.cause = "AuthenticationError"]
        ELSE IF ~numeric THEN [r1 EXCEPT !.cause = "ValueError"]
        ELSE IF ChoiceInvalid(typed - 1, n) THEN [r EXCEPT !.cause = "ValueError"]
        ELSE IF click # "none" THEN [r EXCEPT !.cause = click, !.mfaClicked = TRUE]
        ELSE IF otc = "timeout"
        THEN [r EXCEPT !.cause = "TimeoutException", !.mfaClicked = TRUE,
                       !.confirmAsked = TRUE]
        ELSE IF found # "none"
        THEN [r EXCEPT !.cause = found, !.mfaClicked = TRUE, !.confirmAsked = TRUE,
                       !.codeAsked = TRUE]
        ELSE IF submit = "timeout"
        THEN [r EXCEPT !.cause = "TimeoutException", !.mfaClicked = TRUE,
                       !.confirmAsked = TRUE, !.codeAsked = TRUE, !.codeTyped = TRUE]
        ELSE [r EXCEPT !.cause = verify, !.mfaClicked = TRUE, !.confirmAsked = TRUE,
                       !.codeAsked = TRUE, !.codeTyped = TRUE]

ClickErrors == {"StaleElementReferenceException", "ElementClickInterceptedException"}

\* how the try block can go, over the page, the options and what is typed
MfaOutcomes ==
    { MfaBody(container, n, numeric, typed, click, otc, found, submit, verify) :
        container \in {"present", "timeout"}, n \in 0..MaxOptions,
        numeric \in BOOLEAN, typed \in 0..(MaxOptions + 1),
        click \in {"none"} \cup ClickErrors, otc \in {"present", "timeout"},
        found \in {"none", "NoSuchElementException"},
        submit \in {"present", "timeout"}, verify \in {"none"} \cup ClickErrors }

\* the MFA block
LoginMfa ==
    /\ pc = <<"login", "MfaChallenge">>
    /\ \E b \in MfaOutcomes :
         StageEnds("MfaChallenge",
                   [login EXCEPT !.gate = IF b.gate THEN "MfaChallenge" ELSE @,
                                 !.attempts = 0,
                                 !.mfaListed = b.mfaListed,
                                 !.options = b.options,
                                 !.choiceRead = b.choiceRead,
                                 !.choice = b.choice,
                                 !.mfaClicked = b.mfaClicked,
                                 !.confirmAsked = b.confirmAsked,
                                 !.codeAsked = b.codeAsked,
                                 !.codeTyped = b.codeTyped],
                   MfaWrap(b.cause))
    /\ StageFrame

\* the stay-signed-in block without its except clause
StayHandlerReraises(kind) == kind

\* `except TimeoutException: logger.info("No 'Stay signed in' prompt found")`
StayHandler(kind) == IF kind = "TimeoutException" THEN "none" ELSE kind

\* the "Stay signed in?" block
LoginStay ==
    /\ pc = <<"login", "StaySignedInPrompt">>
    /\ \E prompt \in {"present", "absent"}, click \in ClickResults :
         IF prompt = "absent"
         THEN StageEnds("StaySignedInPrompt", [login EXCEPT !.stay = "absent", !.attempts = 0],
                        StayHandler("TimeoutException"))
         ELSE StageEnds("StaySignedInPrompt",
                        [login EXCEPT !.stay = "present", !.stayClicks = click.clicked,
                                      !.attempts = click.waits],
                        StayHandler(click.exc))
    /\ StageFrame

\* the loop taking the last selector that shows up
LastAppearing(appears) ==
    IF \E i \in 1..NumSelectors : appears[i]
    THEN CHOOSE i \in 1..NumSelectors : appears[i] /\ \A j \in (i + 1)..NumSelectors : ~appears[j]
    ELSE 0

\* `for selector in success_elements`: appears[i] tells whether selector i shows
\* up within its window; the number of selectors probed, 0 when none showed up
FirstAppearing(appears) ==
    IF \E i \in 1..NumSelectors : appears[i]
    THEN CHOOSE i \in 1..NumSelectors : appears[i] /\ \A j \in 1..(i - 1) : ~appears[j]
    ELSE 0

\* the load verification block
LoginVerify ==
    /\ pc = <<"login", "LoadVerification">>
    /\ \E appears \in [1..NumSelectors -> BOOLEAN] :
       \E hit \in {FirstAppearing(appears)} :
         IF hit > 0
         THEN /\ login' = [login EXCEPT !.stages = Append(@, "LoadVerification"),
                                        !.completed = @ \cup {"LoadVerification"},
                                        !.probes = hit, !.verified = TRUE,
                                        !.appears = appears,
                                        !.result = "True"]
              /\ pc' = <<"login", "done">>
         ELSE StageEnds("LoadVerification",
                        [login EXCEPT !.probes = NumSelectors, !.gate = "LoadVerification",
                                      !.appears = appears],
                        "AuthenticationError")
    /\ StageFrame

----------------------------------------------------------------------------
(* navigate_to_classlist *)

\* classlist_selectors
NumStrategies == 3

NavIdle ==
    [result |-> "none", exc |-> "none", cause |-> "none", path |-> "none",
     reloads |-> 0, groupClicks |-> 0, attempts |-> 0, inLoop |-> FALSE, tried |-> 0,
     failures |-> <<>>,
     direct |-> "none"]

\* `except Exception as e: raise NavigationError(...)` around the whole method
NavWrap(kind) == "NavigationError"

\* `except (TimeoutException, NoSuchElementException): continue`
StrategyCatches(kind) == kind \in {"TimeoutException", "NoSuchElementException"}

NavRaises(n, cause) ==
    /\ nav' = [n EXCEPT !.result = "raise", !.cause = cause, !.exc = NavWrap(cause)]
    /\ pc' = <<"nav", "done">>

NavFrame == UNCHANGED <<sessVars, login, clickVars, urlVars, parseVars>>

\* the direct attempt that never returns
DirectSucceedsNever(table) == FALSE

\* the wait for the table after the direct load returned an element: `return`
DirectSucceeds(table) == table = "present"

\* the direct attempt
NavDirect ==
    /\ pc = <<"nav", "direct">>
    /\ \E get \in {"none", "WebDriverException"}, table \in {"present", "timeout"} :
         IF get # "none"
         THEN NavRaises([nav EXCEPT !.path = "direct", !.direct = "error"], get)
         ELSE IF DirectSucceeds(table)
         THEN /\ nav' = [nav EXCEPT !.path = "direct", !.result = "return",
                                    !.direct = table]
              /\ pc' = <<"nav", "done">>
         ELSE /\ nav' = [nav EXCEPT !.path = "menu", !.direct = table]
              /\ pc' = <<"nav", "menu">>
    /\ NavFrame

\* reload the course page and open the navigation group
NavMenu ==
    /\ pc = <<"nav", "menu">>
    /\ \E get \in {"none", "WebDriverException"}, click \in ClickResults :
         IF get # "none" THEN NavRaises(nav, get)
         ELSE IF click.result = "raise"
         THEN NavRaises([nav EXCEPT !.reloads = 1, !.attempts = click.waits], click.exc)
         ELSE /\ nav' = [nav EXCEPT !.reloads = 1, !.groupClicks = click.clicked,
                                    !.attempts = click.waits,
                                    !.inLoop = TRUE]
              /\ pc' = <<"nav", "strategy">>
    /\ NavFrame

\* one iteration of `for selector in classlist_selectors`, and the raise after the loop
NavStrategy ==
    /\ pc = <<"nav", "strategy">>
    /\ nav.tried < NumStrategies
    /\ \E click \in ClickResults, table \in {"present", "timeout"} :
       \E failure \in {IF click.result = "raise" THEN click.exc
                       ELSE IF table = "timeout" THEN "TimeoutException" ELSE "none"} :
       \E n \in {[nav EXCEPT !.tried = @ + 1, !.attempts = click.waits,
                             !.failures = IF failure = "none" THEN @ ELSE Append(@, failure)]} :
         IF failure = "none"
         THEN /\ nav' = [n EXCEPT !.result = "return"]
              /\ pc' = <<"nav", "done">>
         ELSE IF ~StrategyCatches(failure) THEN NavRaises(n, failure)
         ELSE IF n.tried = NumStrategies THEN NavRaises(n, "NavigationError")
         ELSE /\ nav' = n
              /\ pc' = <<"nav", "strategy">>
    /\ NavFrame

----------------------------------------------------------------------------
(* __init__, _validate_url and _infer_classlist_url *)

RECURSIVE Join(_)
Join(seqs) == IF seqs = <<>> THEN <<>> ELSE Head(seqs) \o Join(Tail(seqs))

\* the index of the first c in s, 0 when there is none: s.find(c) + 1
Find(s, c) ==
    IF \E i \in 1..Len(s) : s[i] = c
    THEN CHOOSE i \in 1..Len(s) : s[i] = c /\ \A j \in 1..(i - 1) : s[j] # c
    ELSE 0

\* the index of the first of '/', '?', '#' in s from position `from` on, else Len(s) + 1
NetlocEnd(s, from) ==
    IF \E i \in from..Len(s) : s[i] \in {"/", "?", "#"}
    THEN CHOOSE i \in from..Len(s) :
            s[i] \in {"/", "?", "#"} /\ \A j \in from..(i - 1) : s[j] \notin {"/", "?", "#"}
    ELSE Len(s) + 1

SchemeChars == {"h", "t", "p", "s", "f", "o", "u", "5", "+", "-", "."}

Before(s, i) == SubSeq(s, 1, i - 1)
After(s, i) == SubSeq(s, i + 1, Len(s))

\* urlparse(url): scheme, netloc and path of a URL without params
urlparse(u) ==
    LET colon == Find(u, ":")
        hasScheme == colon > 1 /\ \A i \in 1..(colon - 1) : u[i] \in SchemeChars
        scheme == IF hasScheme THEN Before(u, colon) ELSE <<>>
        rest1 == IF hasScheme THEN After(u, colon) ELSE u
        hasNetloc == Len(rest1) >= 2 /\ rest1[1] = "/" /\ rest1[2] = "/"
        stop == NetlocEnd(rest1, 3)
        netloc == IF hasNetloc THEN SubSeq(rest1, 3, stop - 1) ELSE <<>>
        rest2 == IF hasNetloc THEN SubSeq(rest1, stop, Len(rest1)) ELSE rest1
        hash == Find(rest2, "#")
        rest3 == IF hash > 0 THEN Before(rest2, hash) ELSE rest2
        mark == Find(rest3, "?")
        path == IF mark > 0 THEN Before(rest3, mark) ELSE rest3
    IN  [scheme |-> scheme, netloc |-> netloc, path |-> path]

Http == <<"h", "t", "t", "p">>
Https == <<"h", "t", "t", "p", "s">>

\* _validate_url without the check of the protocol
validate_url_any_scheme(u) ==
    LET parsed == urlparse(u)
    IN  IF parsed.scheme = <<>> \/ parsed.netloc = <<>> THEN "ValueError" ELSE "none"

\* _validate_url: the exception it raises, or "none"
validate_url(u) ==
    LET parsed == urlparse(u)
    IN  IF parsed.scheme = <<>> \/ parsed.netloc = <<>> THEN "ValueError"
        ELSE IF parsed.scheme \notin {Http, Https} THEN "ValueError"
        ELSE "none"

\* s.rstrip('/')
RECURSIVE RStripSlash(_)
RStripSlash(s) ==
    IF s # <<>> /\ s[Len(s)] = "/" THEN RStripSlash(Before(s, Len(s))) ELSE s

\* s.split('/')
RECURSIVE SplitSlash(_)
SplitSlash(s) ==
    LET i == Find(s, "/")
    IN  IF i = 0 THEN <<s>> ELSE <<Before(s, i)>> \o SplitSlash(After(s, i))

\* path.split('/') without the rstrip
PathPartsUnstripped(path) == SplitSlash(path)

\* parsed_url.path.rstrip('/').split('/')
PathParts(path) == SplitSlash(RStripSlash(path))

Ou == <<"o", "u">>

ClasslistPath == <<"/", "d", "2", "l", "/", "l", "m", "s", "/", "c", "l", "a", "s", "s", "l", "i", "s", "t", "/", "c", "l", "a", "s", "s", "l", "i", "s", "t", ".", "d", "2", "l">>

OuQuery == <<"?", "o", "u", "=">>

\* path_parts.index('ou'), 1-based
IndexOfOu(parts) == CHOOSE i \in 1..Len(parts) : parts[i] = Ou /\ \A j \in 1..(i - 1) : parts[j] # Ou

\* _infer_classlist_url
infer_classlist_url(u) ==
    LET parsed == urlparse(u)
        path_parts == PathParts(parsed.path)
        base == parsed.scheme \o <<":", "/", "/">> \o parsed.netloc \o ClasslistPath
    IN  IF \E i \in 1..Len(path_parts) : path_parts[i] = Ou
        THEN LET ou_index == IndexOfOu(path_parts)
             IN  IF ou_index + 1 <= Len(path_parts)
                 THEN base \o OuQuery \o path_parts[ou_index + 1]
                 ELSE base
        ELSE base

(* Course URLs handed to the constructor *)

Schemes == {<<>>, Http, Https, <<"f", "t", "p">>}
Netlocs == {<<>>, <<"h">>}
Segments == {Ou, <<"o">>, <<"5">>, <<>>}
Suffixes == {<<>>, <<"?", "o", "u", "=", "5", "#", "o">>}

SegSeqs == UNION { [1..n -> Segments] : n \in 0..MaxSegs }

\* a URL is written as [scheme ":"] ["//" netloc] {"/" segment} {"/"} [suffix];
\* without "//" the path does not begin with "//"
UrlInputs ==
    { p \in [scheme : Schemes, hasAuth : BOOLEAN, netloc : Netlocs, segs : SegSeqs,
             trail : 0..MaxTrail, suffix : Suffixes] :
        /\ ~p.hasAuth => p.netloc = <<>>
        /\ ~p.hasAuth => (p.segs = <<>> => p.trail <= 1)
        /\ ~p.hasAuth => (p.segs # <<>> => p.segs[1] # <<>>) }

PathOf(p) ==
    Join([i \in 1..Len(p.segs) |-> <<"/">> \o p.segs[i]]) \o [i \in 1..p.trail |-> "/"]

Assemble(p) ==
    (IF p.scheme # <<>> THEN p.scheme \o <<":">> ELSE <<>>)
    \o (IF p.hasAuth THEN <<"/", "/">> \o p.netloc ELSE <<>>)
    \o PathOf(p) \o p.suffix

DefaultParts ==
    [scheme |-> Https, hasAuth |-> TRUE, netloc |-> <<"h">>, segs |-> <<Ou, <<"5">>>>,
     trail |-> 0, suffix |-> <<>>]

\* D2LClasslistScraper(course_url)
Construct ==
    /\ pc = <<"main", "new">>
    /\ \E raised \in {validate_url(url)} :
         IF raised # "none"
         THEN /\ ctorExc' = raised
              /\ pc' = <<"main", "invalid">>
              /\ UNCHANGED <<course_url, classlist_url>>
         ELSE /\ ctorExc' = "none"
              /\ course_url' = url
              /\ classlist_url' = infer_classlist_url(url)
              /\ pc' = <<"main", "idle">>
    /\ UNCHANGED <<url, urlParts, sessVars, login, nav, clickVars, parseVars>>

----------------------------------------------------------------------------
(* get_classlist *)

None == [kind |-> "None", rows |-> <<>>]

\* pd.DataFrame([vars(s) for s in students]): one row per record, in order
DataFrame(records) == [kind |-> "DataFrame", rows |-> records]

\* get_classlist without the check of the parsed list
NoStudentsUnchecked(found) == FALSE

\* `if not students`
NoStudents(found) == found = <<>>

\* `if self.driver` in the finally block
HasDriver(d) == d # 0

\* a launch that passes for a success whatever happened
LaunchRaisesNever(how) == FALSE

\* `except Exception as e: raise WebDriverException(...)` of setup_driver
LaunchRaises(how) == how # "ok"

\* a try block whose statements go on after one of them raised
PropagatesNever(result) == FALSE

\* an exception raised by a statement of the try block leaves the block:
\* `except Exception as e: ... raise`
Propagates(result) == result = "raise"

\* a call of get_classlist on the scraper begins
GetClasslist ==
    /\ pc \in {<<"main", "idle">>, <<"main", "done">>}
    /\ calls < MaxCalls
    /\ calls' = calls + 1
    /\ pc' = <<"main", "setup">>
    /\ exc' = "none"
    /\ ret' = None
    /\ prompted' = FALSE
    /\ trace' = <<>>
    /\ launch' = "none"
    /\ returned' = <<>>
    /\ UNCHANGED <<driver, opened, quits, login, nav, clickVars, urlVars, parseVars>>

\* self.setup_driver(): webdriver.Chrome() raises, or it returns a handle and a
\* later statement of the try block raises, or all of it succeeds
setup_driver ==
    /\ pc = <<"main", "setup">>
    /\ trace' = Append(trace, "setup_driver")
    /\ \E how \in {"ok", "chrome_raises", "configure_raises"} :
         /\ launch' = how
         /\ IF how = "chrome_raises"
            THEN UNCHANGED <<driver, opened>>
            ELSE /\ opened' = opened + 1
                 /\ driver' = opened + 1
         /\ returned' = IF how = "ok" THEN Append(returned, "setup_driver") ELSE returned
         /\ IF LaunchRaises(how)
            THEN /\ pc' = <<"main", "finally">>
                 /\ exc' = "WebDriverException"
            ELSE /\ pc' = <<"main", "creds">>
                 /\ exc' = "none"
    /\ UNCHANGED <<quits, calls, ret, prompted, login, nav, clickVars, urlVars, parseVars>>

\* the credential prompts, then self.login(username, password) is entered
Credentials ==
    /\ pc = <<"main", "creds">>
    /\ \E given \in BOOLEAN : prompted' = ~given
    /\ trace' = Append(trace, "login")
    /\ login' = LoginIdle
    /\ pc' = <<"login", "NavigateToCourse">>
    /\ UNCHANGED <<driver, opened, quits, calls, exc, ret, launch, returned, nav, clickVars,
                   urlVars, parseVars>>

\* login has ended: go on with navigate_to_classlist, or the error goes to the caller
LoginReturns ==
    /\ pc = <<"login", "done">>
    /\ returned' = IF login.result = "True" THEN Append(returned, "login") ELSE returned
    /\ IF ~Propagates(login.result)
       THEN /\ pc' = <<"nav", "direct">>
            /\ trace' = Append(trace, "navigate_to_classlist")
            /\ exc' = "none"
       ELSE /\ pc' = <<"main", "finally">>
            /\ exc' = login.exc
            /\ UNCHANGED trace
    /\ login' = LoginIdle
    /\ nav' = NavIdle
    /\ UNCHANGED <<driver, opened, quits, calls, ret, prompted, launch, clickVars, urlVars,
                   parseVars>>

\* navigate_to_classlist has ended: go on with parse_classlist, or the error goes on
NavReturns ==
    /\ pc = <<"nav", "done">>
    /\ returned' = IF nav.result = "return" THEN Append(returned, "navigate_to_classlist")
                   ELSE returned
    /\ IF ~Propagates(nav.result)
       THEN /\ pc' = <<"parse", "call">>
            /\ trace' = Append(trace, "parse_classlist")
            /\ exc' = "none"
       ELSE /\ pc' = <<"main", "finally">>
            /\ exc' = nav.exc
            /\ UNCHANGED trace
    /\ nav' = NavIdle
    /\ UNCHANGED <<driver, opened, quits, calls, ret, prompted, launch, login, clickVars, urlVars,
                   parseVars>>

\* parse_classlist has ended: the check of its result and the return value
ParseReturns ==
    /\ pc = <<"parse", "loop">>
    /\ parseResult # "none"
    /\ calls > 0
    /\ pc' = <<"main", "finally">>
    /\ returned' = IF parseResult = "return" THEN Append(returned, "parse_classlist")
                   ELSE returned
    /\ IF Propagates(parseResult)
       THEN /\ exc' = parseExc
            /\ ret' = None
       ELSE IF NoStudents(students)
       THEN /\ exc' = "D2LScraperException"
            /\ ret' = None
       ELSE /\ exc' = "none"
            /\ ret' = DataFrame(students)
    /\ students' = <<>>
    /\ attempt' = 0
    /\ soup' = Unbound
    /\ captures' = 0
    /\ yields' = <<>>
    /\ parseResult' = "none"
    /\ parseExc' = "none"
    /\ UNCHANGED <<driver, opened, quits, calls, prompted, trace, launch, login, nav, clickVars, urlVars,
                   pageVars>>

\* KeyboardInterrupt while a step after the launch is running: no `except
\* Exception` clause catches it, the frames unwind to the finally block
Interrupt ==
    /\ pc[1] \in {"login", "nav", "parse"} \/ pc = <<"main", "creds">>
    /\ calls > 0
    /\ pc' = <<"main", "finally">>
    /\ exc' = "KeyboardInterrupt"
    /\ login' = LoginIdle
    /\ nav' = NavIdle
    /\ students' = <<>>
    /\ attempt' = 0
    /\ soup' = Unbound
    /\ captures' = 0
    /\ yields' = <<>>
    /\ parseResult' = "none"
    /\ parseExc' = "none"
    /\ UNCHANGED <<driver, opened, quits, calls, ret, prompted, trace, launch, returned, clickVars,
                   urlVars, pageVars>>

\* the finally block; an exception of quit() itself is logged and dropped
Finally ==
    /\ pc = <<"main", "finally">>
    /\ IF HasDriver(driver)
       THEN /\ quits' = [quits EXCEPT ![driver] = @ + 1]
            /\ trace' = Append(trace, "quit")
       ELSE UNCHANGED <<quits, trace>>
    /\ pc' = <<"main", "done">>
    /\ UNCHANGED <<driver, opened, calls, exc, ret, prompted, launch, returned, login, nav,
                   clickVars, urlVars,
                   parseVars>>

----------------------------------------------------------------------------
(* Specifications *)

Quiet ==
    /\ driver = 0
    /\ opened = 0
    /\ quits = [h \in 1..MaxCalls |-> 0]
    /\ calls = 0
    /\ exc = "none"
    /\ ret = None
    /\ prompted = FALSE
    /\ trace = <<>>
    /\ launch = "none"
    /\ returned = <<>>
    /\ login = LoginIdle
    /\ nav = NavIdle
    /\ students = <<>>
    /\ attempt = 0
    /\ soup = Unbound
    /\ captures = 0
    /\ yields = <<>>
    /\ parseResult = "none"
    /\ parseExc = "none"
    /\ runs = 0
    /\ firstRun = NoRun

\* the scraper was constructed from a valid course URL
Constructed ==
    /\ urlParts = DefaultParts
    /\ url = Assemble(DefaultParts)
    /\ course_url = Assemble(DefaultParts)
    /\ classlist_url = infer_classlist_url(Assemble(DefaultParts))
    /\ ctorExc = "none"

\* a scraper after construction, on which get_classlist is called again and again
Init ==
    /\ pc = <<"main", "idle">>
    /\ wcRetries = 0
    /\ wcEnv = <<>>
    /\ wcResult = NoClickResult
    /\ rendered = Changing
    /\ Constructed
    /\ Quiet

Next ==
    \/ GetClasslist
    \/ setup_driver
    \/ Credentials
    \/ LoginNavigate
    \/ LoginEmail
    \/ LoginPassword
    \/ LoginMfa
    \/ LoginStay
    \/ LoginVerify
    \/ LoginReturns
    \/ NavDirect
    \/ NavMenu
    \/ NavStrategy
    \/ NavReturns
    \/ ParseCall
    \/ ParseAttempt
    \/ ParseReturns
    \/ Interrupt
    \/ Finally

Spec == Init /\ [][Next]_vars

\* the steps of a running call: each of them ends when the browser wait it
\* sits in ends and the prompt it sits in is answered
Step ==
    \/ setup_driver \/ Credentials
    \/ LoginNavigate \/ LoginEmail \/ LoginPassword \/ LoginMfa \/ LoginStay \/ LoginVerify
    \/ LoginReturns
    \/ NavDirect \/ NavMenu \/ NavStrategy \/ NavReturns
    \/ ParseCall \/ ParseAttempt \/ ParseReturns
    \/ Finally

\* pages with at most one data row
Steady == { p \in Pages \ {CaptureFailed} : Len(p.table) <= 2 }

\* a scraper whose course shows one page all along; a capture of it may fail
InitLive ==
    /\ pc = <<"main", "idle">>
    /\ wcRetries = 0
    /\ wcEnv = <<>>
    /\ wcResult = NoClickResult
    /\ rendered \in Steady
    /\ Constructed
    /\ Quiet

\* every browser wait ends and every prompt is answered
SpecLive == InitLive /\ [][Next]_vars /\ WF_vars(Step)

\* parse_classlist called on a scraper whose browser shows some page
InitParse ==
    /\ pc = <<"parse", "call">>
    /\ wcRetries = 0
    /\ wcEnv = <<>>
    /\ wcResult = NoClickResult
    /\ rendered = Changing
    /\ Constructed
    /\ Quiet

NextParse == ParseCall \/ ParseAttempt

SpecParse == InitParse /\ [][NextParse]_vars

\* parse_classlist called MaxRuns times while the browser keeps showing one page
InitRerun ==
    /\ pc = <<"parse", "call">>
    /\ wcRetries = 0
    /\ wcEnv = <<>>
    /\ wcResult = NoClickResult
    /\ rendered \in Pages \ {CaptureFailed}
    /\ Constructed
    /\ Quiet

NextRerun == ParseCall \/ ParseAttempt \/ ParseAgain

SpecRerun == InitRerun /\ [][NextRerun]_vars

\* a scraper is constructed from some course URL and then used
InitUrl ==
    /\ pc = <<"main", "new">>
    /\ urlParts \in UrlInputs
    /\ url = Assemble(urlParts)
    /\ course_url = <<>>
    /\ classlist_url = <<>>
    /\ ctorExc = "none"
    /\ wcRetries = 0
    /\ wcEnv = <<>>
    /\ wcResult = NoClickResult
    /\ rendered = Changing
    /\ Quiet

NextUrl == Construct \/ GetClasslist \/ setup_driver \/ Credentials \/ Finally

SpecUrl == InitUrl /\ [][NextUrl]_vars

\* wait_and_click called with some `retries` against some behaviour of the page
InitClick ==
    /\ pc = <<"click", "call">>
    /\ wcRetries \in 0..MaxRetries
    /\ wcEnv \in ClickEnvs(wcRetries)
    /\ wcResult = NoClickResult
    /\ rendered = Changing
    /\ Constructed
    /\ Quiet

NextClick == WaitAndClickCall

SpecClick == InitClick /\ [][NextClick]_vars

----------------------------------------------------------------------------
(* Properties *)

AtDone == pc = <<"main", "done">>
LoginDone == pc = <<"login", "done">>
ParseEnded == pc = <<"parse", "loop">> /\ parseResult # "none"
ClickDone == pc = <<"click", "done">>

\* C1: every browser handle that was opened has had quit() invoked on it at
\* most once at any time, and exactly once whenever a get_classlist call has
\* ended, over any sequence of calls on the same scraper.
QuitExactlyOncePerHandle ==
    \A h \in 1..opened :
        /\ quits[h] <= 1
        /\ AtDone => quits[h] = 1

\* C2: when each of the 3 attempts of parse_classlist left zero records, the
\* call ends by raising ValueError and never by returning.
AllEmptyAttemptsRaise ==
    (ParseEnded /\ Len(yields) = 3 /\ \A i \in 1..3 : yields[i] = 0)
        => (parseResult = "raise" /\ parseExc = "ValueError")

\* C3: parse_classlist reads the page source at least once and at most 3
\* times, once per attempt, and no attempt follows one that produced a record.
AttemptsBounded ==
    /\ captures <= 3
    /\ Len(yields) = captures
    /\ ParseEnded => captures >= 1
    /\ \A i \in 1..(Len(yields) - 1) : yields[i] = 0

ThirdAttemptSucceeds ==
    ParseEnded /\ parseResult = "return" /\ captures = 3 /\ yields[3] > 0

\* the first k attempts have their click raise stale or intercepted, every
\* later attempt clicks successfully
FailsFirst(k) ==
    \A i \in 1..wcRetries :
        IF i <= k THEN wcEnv[i] \in {"stale", "intercepted"} ELSE wcEnv[i] = "ok"

\* C4: with retries = r >= 1 and a click that raises stale or intercepted on
\* its first k attempts only, wait_and_click returns iff k < r after exactly
\* k + 1 click attempts, and otherwise raises the click error after exactly r.
ClickRetryBound ==
    (ClickDone /\ wcRetries >= 1) =>
        \A k \in 0..wcRetries :
            FailsFirst(k) =>
                IF k < wcRetries
                THEN /\ wcResult.result = "return"
                     /\ wcResult.clicks = k + 1
                     /\ wcResult.clicked = 1
                ELSE /\ wcResult.result = "raise"
                     /\ wcResult.exc \in ClickErrors
                     /\ wcResult.clicks = wcRetries
                     /\ wcResult.clicked = 0

TwoStaleThenClicked ==
    ClickDone /\ wcRetries = 3 /\ FailsFirst(2) /\ wcResult.result = "return"

\* C5: login ends by returning True or by raising AuthenticationError,
\* whatever exception made it fail.
LoginRaisesOnlyAuthenticationError ==
    /\ login.result \in {"none", "True", "raise"}
    /\ login.result = "raise" => login.exc = "AuthenticationError"
    /\ login.result = "True" => login.exc = "none"
    /\ LoginDone => login.result # "none"

LoginFailedOnClick ==
    LoginDone /\ login.cause = "ElementClickInterceptedException"
              /\ login.exc = "AuthenticationError"

\* C6: the stages of login that have run are a prefix of the fixed order, each
\* one before the last has completed, a stage other than the stay-signed-in
\* prompt whose gating element timed out is the last stage and login raised
\* AuthenticationError, and login returns True only when all six stages ran
\* and the load verification succeeded.
LoginStagesInOrder ==
    LET n == Len(login.stages)
    IN  /\ n <= 6
        /\ \A i \in 1..n : login.stages[i] = LoginOrder[i]
        /\ \A i \in 1..(n - 1) : login.stages[i] \in login.completed
        /\ (pc[1] = "login" /\ ~LoginDone) => pc[2] = LoginOrder[n + 1]
        /\ login.gate # "none" =>
              /\ login.gate # "StaySignedInPrompt"
              /\ LoginDone
              /\ login.result = "raise"
              /\ login.exc = "AuthenticationError"
              /\ login.stages[n] = login.gate
        /\ login.result = "True" =>
              /\ n = 6
              /\ login.verified
              /\ "LoadVerification" \in login.completed

LoginRanAllStages == LoginDone /\ login.result = "True" /\ Len(login.stages) = 6

\* C7: when the stay-signed-in prompt does not appear, that stage raises
\* nothing, login goes on to the load verification, and login returns True
\* exactly when the load verification succeeded.
StayAbsentProceeds ==
    login.stay = "absent" =>
        /\ "StaySignedInPrompt" \in login.completed
        /\ \/ pc = <<"login", "LoadVerification">>
           \/ LoginDone /\ login.stages[Len(login.stages)] = "LoadVerification"
        /\ LoginDone => (login.result = "True" <=> login.verified)
        /\ LoginDone => (login.result = "raise" <=> ~login.verified)

StayAbsentLoginSucceeds == LoginDone /\ login.stay = "absent" /\ login.result = "True"

\* a row of at least 8 cells with a non-empty name cell holding a comma
RowIsWellFormed(cells) ==
    /\ Len(cells) >= 8
    /\ Strip(cells[3]) # <<>>
    /\ \E i \in 1..Len(cells[3]) : cells[3][i] = ","

\* the record of a well-formed row: name split at its first comma, the other
\* fields taken from cells 4 to 8, everything trimmed
RecordOfRow(cells) ==
    LET name == Strip(cells[3])
        c == CHOOSE i \in 1..Len(name) : name[i] = "," /\ \A j \in 1..(i - 1) : name[j] # ","
    IN  [last_name |-> Strip(SubSeq(name, 1, c - 1)),
         first_name |-> Strip(SubSeq(name, c + 1, Len(name))),
         username |-> Strip(cells[4]), org_id |-> Strip(cells[5]),
         email |-> Strip(cells[6]), role |-> Strip(cells[7]),
         last_accessed |-> Strip(cells[8])]

RowIsValid(cells) ==
    /\ RowIsWellFormed(cells)
    /\ \A f \in DOMAIN RecordOfRow(cells) : RecordOfRow(cells)[f] # <<>>

ExpectedRoster(table) ==
    LET valid == SelectSeq(Tail(table), RowIsValid)
    IN  [i \in 1..Len(valid) |-> RecordOfRow(valid[i])]

\* C8: the roster parse_classlist returns is the records of the valid rows
\* after the header of the page it parsed, in row order, and nothing else.
RosterIsValidRowsInOrder ==
    (ParseEnded /\ parseResult = "return") =>
        /\ soup.kind = "table"
        /\ soup.table # <<>>
        /\ students = ExpectedRoster(soup.table)

TwoValidOneBlankEmail ==
    /\ ParseEnded /\ parseResult = "return"
    /\ Len(soup.table) = 4
    /\ soup.table[3][6] = <<>>
    /\ RowIsValid(soup.table[2]) /\ RowIsValid(soup.table[4])
    /\ soup.table[2] # soup.table[4]
    /\ Len(students) = 2

\* C9: a get_classlist call that has ended either raised, or returned a roster
\* of at least one record whose seven fields are all non-empty; it never
\* returned None or an empty roster.
ReturnsRosterOrRaises ==
    AtDone =>
        \/ exc # "none" /\ ret = None
        \/ /\ exc = "none"
           /\ ret.kind = "DataFrame"
           /\ Len(ret.rows) >= 1
           /\ \A i \in 1..Len(ret.rows) :
                 /\ DOMAIN ret.rows[i] = FieldNames
                 /\ \A f \in FieldNames : ret.rows[i][f] # <<>>

ReturnedRoster == AtDone /\ exc = "none" /\ Len(ret.rows) >= 2

\* C10: once the strategy loop of the menu fallback is entered,
\* navigate_to_classlist raises only after all three strategies were tried.
RaisesOnlyAfterAllStrategies ==
    (nav.result = "raise" /\ nav.inLoop) => nav.tried = NumStrategies

NavDone == pc = <<"nav", "done">>

\* C11: when the table marker appears after the direct load,
\* navigate_to_classlist returns at once with no reload of the course page, no
\* click on the navigation group and no selector strategy; the menu fallback
\* runs only after the direct wait timed out.
DirectSuccessReturnsAtOnce ==
    /\ nav.direct = "present" =>
          /\ NavDone
          /\ nav.result = "return"
          /\ nav.path = "direct"
          /\ nav.reloads = 0 /\ nav.groupClicks = 0 /\ ~nav.inLoop /\ nav.tried = 0
    /\ (nav.path = "menu" \/ pc \in {<<"nav", "menu">>, <<"nav", "strategy">>}) =>
          nav.direct = "timeout"
    /\ (nav.reloads > 0 \/ nav.groupClicks > 0 \/ nav.inLoop \/ nav.tried > 0) =>
          nav.direct = "timeout"

DirectNavigationReturned == NavDone /\ nav.direct = "present" /\ nav.result = "return"

\* C12: a run of parse_classlist against the page an earlier run saw, the
\* page unchanged, returns the roster the first run returned: same records,
\* same order, same length.
RerunGivesSameRoster ==
    (ParseEnded /\ runs >= 1 /\ parseResult = "return" /\ firstRun.result = "return")
        => students = firstRun.students

SecondRunReturnedRoster ==
    /\ ParseEnded /\ runs >= 1
    /\ parseResult = "return" /\ firstRun.result = "return"
    /\ Len(students) >= 2

IsConstructed == pc[1] = "main" /\ pc[2] \notin {"new", "invalid"} /\ ctorExc = "none"

\* the URL was written with scheme http or https and a non-empty authority
WrittenValid(p) == p.scheme \in {Http, Https} /\ p.hasAuth /\ p.netloc # <<>>

\* {scheme}://{authority}/d2l/lms/classlist/classlist.d2l
TemplateOf(p) == p.scheme \o <<":", "/", "/">> \o p.netloc \o ClasslistPath

\* the segments of the path once its trailing slashes are removed
RECURSIVE Trimmed(_)
Trimmed(segs) ==
    IF segs # <<>> /\ segs[Len(segs)] = <<>> THEN Trimmed(SubSeq(segs, 1, Len(segs) - 1))
    ELSE segs

\* C13 as stated: a valid URL with an "ou" segment in its path gets the
\* template with ?ou={id}, {id} a segment that follows an "ou"; a valid URL
\* without an "ou" segment gets the template without the query.
OuSegmentGivesQuery ==
    (IsConstructed /\ WrittenValid(urlParts)) =>
        LET segs == urlParts.segs
        IN  IF \E i \in 1..Len(segs) : segs[i] = Ou
            THEN \E i \in 1..(Len(segs) - 1) :
                    /\ segs[i] = Ou
                    /\ classlist_url = TemplateOf(urlParts) \o OuQuery \o segs[i + 1]
            ELSE classlist_url = TemplateOf(urlParts)

\* C13 amended: with the trailing slashes of the path removed, a valid URL
\* whose first "ou" segment is followed by another segment gets the template
\* with ?ou={id}, {id} that following segment; every other valid URL (no "ou"
\* segment, or nothing after the first one) gets the template without the query.
FirstOuFollowedGivesQuery ==
    (IsConstructed /\ WrittenValid(urlParts)) =>
        LET segs == Trimmed(urlParts.segs)
        IN  IF \E i \in 1..(Len(segs) - 1) : segs[i] = Ou /\ \A j \in 1..(i - 1) : segs[j] # Ou
            THEN \E i \in 1..(Len(segs) - 1) :
                    /\ segs[i] = Ou /\ \A j \in 1..(i - 1) : segs[j] # Ou
                    /\ classlist_url = TemplateOf(urlParts) \o OuQuery \o segs[i + 1]
            ELSE classlist_url = TemplateOf(urlParts)

InferredWithQuery ==
    /\ IsConstructed /\ WrittenValid(urlParts)
    /\ urlParts.segs = <<<<"o">>, Ou, <<"5">>>> /\ urlParts.trail = 1
    /\ classlist_url = TemplateOf(urlParts) \o OuQuery \o <<"5">>

\* C14: a course URL written without scheme, without authority or with a
\* scheme other than http and https makes the constructor raise ValueError,
\* and then no browser is launched and no step of get_classlist runs.
InvalidUrlNeverLaunches ==
    ~WrittenValid(urlParts) =>
        /\ pc \in {<<"main", "new">>, <<"main", "invalid">>}
        /\ pc = <<"main", "invalid">> => ctorExc = "ValueError"
        /\ opened = 0 /\ driver = 0 /\ calls = 0
        /\ trace = <<>> /\ ~prompted
        /\ course_url = <<>> /\ classlist_url = <<>>

FtpUrlRejected ==
    /\ pc = <<"main", "invalid">>
    /\ urlParts.scheme = <<"f", "t", "p">> /\ urlParts.hasAuth /\ urlParts.netloc # <<>>
    /\ ctorExc = "ValueError"

RanStage(stage) == \E i \in 1..Len(login.stages) : login.stages[i] = stage

\* C15: the load verification probes the selectors 1, 2, ... in order and
\* stops at the first that appears: every selector before the last probed one
\* timed out, login returns True exactly when the last probed one appeared,
\* and it raises AuthenticationError exactly when all four timed out.
ProbesStopAtFirstAppearing ==
    RanStage("LoadVerification") =>
        LET a == login.appears
            k == login.probes
        IN  /\ k \in 1..NumSelectors
            /\ \A j \in 1..(k - 1) : ~a[j]
            /\ login.result = "True" <=> a[k]
            /\ (login.result = "raise" /\ login.exc = "AuthenticationError")
                   <=> \A i \in 1..NumSelectors : ~a[i]
            /\ (\A i \in 1..NumSelectors : ~a[i]) => k = NumSelectors

ThirdSelectorVerified ==
    /\ pc = <<"login", "done">> /\ login.result = "True"
    /\ login.probes = 3 /\ login.appears[3] /\ login.appears[4]

AllSelectorsTimedOut ==
    /\ pc = <<"login", "done">> /\ login.result = "raise"
    /\ login.gate = "LoadVerification" /\ login.probes = NumSelectors

\* C16: an MFA option is clicked only when the typed choice was read and
\* 0 <= choice < number of options; when the list of options is empty or the
\* choice is out of range, login raises AuthenticationError and no option was
\* clicked, no confirmation or code was asked for and no code was typed.
MfaClickOnlyAfterValidChoice ==
    /\ login.mfaClicked =>
          (login.choiceRead /\ 0 <= login.choice /\ login.choice < login.options)
    /\ (login.mfaListed /\
        (login.options = 0 \/
         (login.choiceRead /\ (login.choice < 0 \/ login.choice >= login.options)))) =>
          /\ pc = <<"login", "done">>
          /\ login.result = "raise" /\ login.exc = "AuthenticationError"
          /\ ~login.mfaClicked /\ ~login.confirmAsked
          /\ ~login.codeAsked /\ ~login.codeTyped

MfaChoiceOutOfRange ==
    /\ pc = <<"login", "done">> /\ login.result = "raise"
    /\ login.choiceRead /\ login.options > 0 /\ login.choice = login.options
    /\ ~login.mfaClicked

Started(step) == \E i \in 1..Len(trace) : trace[i] = step

\* C17: every call of get_classlist launches the browser at most once, exactly
\* once when it has come past the launch; when the launch failed the call
\* goes to its end with WebDriverException and nothing to return, without a
\* second launch and without a credential prompt, login, navigation or parse.
LaunchFailureIsFatal ==
    /\ Cardinality({i \in 1..Len(trace) : trace[i] = "setup_driver"}) <= 1
    /\ launch # "none" <=> Started("setup_driver")
    /\ (calls > 0 /\ pc # <<"main", "setup">>) => Started("setup_driver")
    /\ launch \in {"chrome_raises", "configure_raises"} =>
          /\ pc \in {<<"main", "finally">>, <<"main", "done">>}
          /\ exc = "WebDriverException" /\ ret = None
          /\ ~prompted
          /\ \A i \in 1..Len(trace) : trace[i] \in {"setup_driver", "quit"}
          /\ login = LoginIdle /\ nav = NavIdle /\ captures = 0

LaunchFailedCallEnded ==
    /\ pc = <<"main", "done">> /\ launch = "chrome_raises"
    /\ exc = "WebDriverException" /\ calls = 1

StepOrder == <<"setup_driver", "login", "navigate_to_classlist", "parse_classlist">>

\* the steps of the call before the teardown
Body == IF trace # <<>> /\ trace[Len(trace)] = "quit"
        THEN SubSeq(trace, 1, Len(trace) - 1) ELSE trace

\* C18: the steps of a call start in the order launch, login, navigation,
\* parse; each step but the launch starts only after the one before it
\* returned, so a step that failed is the last one before the teardown; quit()
\* is nowhere but at the end, and it is at the end of every call that has
\* ended with a browser handle.
StagesRunInOrder ==
    /\ Len(Body) <= Len(StepOrder)
    /\ \A i \in 1..Len(Body) : Body[i] = StepOrder[i]
    /\ Len(returned) <= Len(Body)
    /\ \A i \in 1..Len(returned) : returned[i] = StepOrder[i]
    /\ \A i \in 2..Len(Body) : Len(returned) >= i - 1
    /\ (pc = <<"main", "done">> /\ HasDriver(driver)) =>
          (trace # <<>> /\ trace[Len(trace)] = "quit")
    /\ (trace # <<>> /\ trace[Len(trace)] = "quit") => pc = <<"main", "done">>

NavigationFailedThenTeardown ==
    /\ pc = <<"main", "done">> /\ exc = "NavigationError"
    /\ trace = <<"setup_driver", "login", "navigate_to_classlist", "quit">>
    /\ returned = <<"setup_driver", "login">>

\* C20: when the stay-signed-in prompt was found present, login comes to the
\* load verification only with the prompt clicked.
StayPresentIsClicked ==
    (login.stay = "present" /\ "StaySignedInPrompt" \in login.completed) =>
        login.stayClicks = 1

\* C19: with every wait ending and every prompt answered, each call of
\* get_classlist that has begun comes to its end; a wait_and_click makes at
\* most DefaultRetries attempts, parse_classlist captures the page at most
\* `retries` times, the load verification probes at most NumSelectors
\* selectors and the menu fallback tries at most NumStrategies strategies.
EveryCallTerminates ==
    /\ [](/\ login.attempts <= DefaultRetries /\ nav.attempts <= DefaultRetries
          /\ captures <= retries /\ attempt <= retries
          /\ login.probes <= NumSelectors
          /\ nav.tried <= NumStrategies)
    /\ (pc = <<"main", "setup">>) ~> (pc = <<"main", "done">>)

ParseExhaustedCallEnded ==
    /\ pc = <<"main", "done">> /\ exc = "ValueError" /\ calls = 1

\* C21: wait_and_click returns normally only with exactly one click that
\* worked, whatever `retries` is.
ReturnsOnlyAfterOneClick ==
    (ClickDone /\ wcResult.result = "return") => wcResult.clicked = 1

\* the attempts before attempt k all ended in a stale element or an
\* intercepted click, and attempt k met the timeout of the clickable-wait
TimeoutAt(k) ==
    /\ k \in 1..wcRetries
    /\ wcEnv[k] = "timeout"
    /\ \A i \in 1..(k - 1) : wcEnv[i] \in {"stale", "intercepted", "stale_scroll"}

\* the clicks made on attempts 1..n
ClicksIn(n) == Cardinality({i \in 1..n : wcEnv[i] \in {"ok", "stale", "intercepted"}})

\* C22: an attempt is followed by another one only when it ended in a stale
\* element or an intercepted click; a timeout of the clickable-wait on
\* attempt k, first or after such failures, ends the call with
\* TimeoutException on that attempt: k waits in all and no click on attempt k.
TimeoutIsNotRetried ==
    ClickDone =>
        /\ \A i \in 1..(wcResult.waits - 1) :
              wcEnv[i] \in {"stale", "intercepted", "stale_scroll"}
        /\ \A k \in 1..wcRetries :
              TimeoutAt(k) =>
                  /\ wcResult.result = "raise"
                  /\ wcResult.exc = "TimeoutException"
                  /\ wcResult.waits = k
                  /\ wcResult.clicks = ClicksIn(k - 1)
                  /\ wcResult.clicked = 0

TimeoutAfterStaleClick ==
    /\ ClickDone /\ wcRetries = 3
    /\ wcEnv[1] = "stale" /\ TimeoutAt(2) /\ wcEnv[3] = "ok"
    /\ wcResult.exc = "TimeoutException" /\ wcResult.waits = 2 /\ wcResult.clicks = 1

====
